---- MODULE Spec2Model ----
(***************************************************************************)
(* A model of seo-canonical-check (canonical.js): the URL normaliser, the  *)
(* canonical rule evaluator runCanonicalChecks and the audit loop          *)
(* runAudit.  Strings are sequences of one-character strings so that the   *)
(* string operations of the code (toLowerCase, endsWith, slice, replace,   *)
(* split) are computed the way the code computes them.                     *)
(***************************************************************************)
EXTENDS Integers, Sequences, FiniteSets, TLC

VARIABLES
    pc,                 \* where runAudit stands: "loop", "awaitSitemap", "urlLoop",
                        \* "awaitPage", "awaitCanonical", "done" or "aborted"
    sitemapUrls,        \* config.sitemapUrls
    sIdx,               \* position of the sitemap loop in sitemapUrls (1-based)
    urls,               \* the URLs of the sitemap being audited
    idx,                \* the loop variable i: number of URLs of urls already checked
    results,            \* the results of the sitemap being audited
    curUrl,             \* runCanonicalChecks: its parameter url, the URL being checked
    response,           \* runCanonicalChecks: the outcome of fetch(url)
    canonicalLinks,     \* runCanonicalChecks: the canonical link elements found
    status,             \* runCanonicalChecks: 'OK' or 'FAIL'
    explanation,        \* runCanonicalChecks: the sentences accumulated so far
    canonicalUrl,       \* runCanonicalChecks: the resolved canonical URL
    canonicalResponse,  \* runCanonicalChecks: the outcome of fetch(canonicalUrl)
    requests,           \* the requests issued by the check of curUrl, in order
    inflight,           \* the requests awaiting their response
    csvFile,            \* the report file written last
    summaries,          \* the totals saveResultsToCSV returned, one per audited sitemap
    grandTotalOK,
    grandTotalFail,
    grandTotalChecked,
    nStage,     \* normaliser run: "input", "once", "twice" or "compared"
    nUrl,       \* the URL handed to normalizeUrl
    nOnce,      \* normalizeUrl(nUrl)
    nTwice,     \* normalizeUrl(normalizeUrl(nUrl))
    nOther,     \* the second URL handed to areUrlsEquivalent
    nOtherNorm, \* normalizeUrl(nOther)
    nEquiv      \* areUrlsEquivalent(nUrl, nOther)

nvars == <<nStage, nUrl, nOnce, nTwice, nOther, nOtherNorm, nEquiv>>

loopVars == <<sitemapUrls, sIdx, urls, idx>>
checkVars == <<curUrl, response, canonicalLinks, status, explanation, canonicalUrl, canonicalResponse>>
totalVars == <<csvFile, summaries, grandTotalOK, grandTotalFail, grandTotalChecked>>
avars == <<pc, loopVars, results, checkVars, requests, inflight, totalVars>>

vars == <<avars, nvars>>

(***************************************************************************)
(* Characters and JavaScript string operations                             *)
(***************************************************************************)
LowerAlphabet == <<"a", "b", "c", "d", "e", "f", "g", "h", "i", "j", "k", "l", "m", "n", "o", "p", "q", "r", "s", "t", "u", "v", "w", "x", "y", "z">>
UpperAlphabet == <<"A", "B", "C", "D", "E", "F", "G", "H", "I", "J", "K", "L", "M", "N", "O", "P", "Q", "R", "S", "T", "U", "V", "W", "X", "Y", "Z">>

Range(s) == {s[i] : i \in 1..Len(s)}

\* F applied to the value of e (const v = e; ... F(v))
With(e, F(_)) == CHOOSE r \in {F(v) : v \in {e}} : TRUE

Digits == {"0", "1", "2", "3", "4", "5", "6", "7", "8", "9"}

IsUpper(c) == c \in Range(UpperAlphabet)

IsAlpha(c) == c \in Range(UpperAlphabet) \cup Range(LowerAlphabet)

\* the lower-case form of one character
LowerChar(c) ==
    IF IsUpper(c)
    THEN LowerAlphabet[CHOOSE i \in 1..Len(UpperAlphabet) : UpperAlphabet[i] = c]
    ELSE c

\* the upper-case form of one character
UpperChar(c) ==
    IF c \in Range(LowerAlphabet)
    THEN UpperAlphabet[CHOOSE i \in 1..Len(LowerAlphabet) : LowerAlphabet[i] = c]
    ELSE c

\* String.prototype.toLowerCase
toLowerCase(s) == [i \in 1..Len(s) |-> LowerChar(s[i])]

\* String.prototype.toUpperCase
toUpperCase(s) == [i \in 1..Len(s) |-> UpperChar(s[i])]

\* String.prototype.startsWith
startsWith(s, t) == Len(t) <= Len(s) /\ SubSeq(s, 1, Len(t)) = t

\* String.prototype.endsWith
endsWith(s, t) == Len(t) <= Len(s) /\ SubSeq(s, Len(s) - Len(t) + 1, Len(s)) = t

\* whether t occurs in s at (1-based) position i
OccursAt(s, t, i) == i + Len(t) - 1 <= Len(s) /\ SubSeq(s, i, i + Len(t) - 1) = t

\* String.prototype.indexOf, 1-based; 0 when t does not occur in s
indexOf(s, t) ==
    IF \E i \in 1..Len(s) : OccursAt(s, t, i)
    THEN CHOOSE i \in 1..Len(s) :
            OccursAt(s, t, i) /\ \A j \in 1..(i - 1) : ~OccursAt(s, t, j)
    ELSE 0

\* String.prototype.replace with a string pattern: the first occurrence only
replace(s, pat, rep) ==
    With(indexOf(s, pat), LAMBDA i :
        IF i = 0 THEN s
        ELSE SubSeq(s, 1, i - 1) \o rep \o SubSeq(s, i + Len(pat), Len(s)))

\* s.split(sep)[0]: the part of s before the first occurrence of sep
splitFirst(s, sep) ==
    With(indexOf(s, sep), LAMBDA i : IF i = 0 THEN s ELSE SubSeq(s, 1, i - 1))

\* s.slice(0, -1)
sliceDropLast(s) == SubSeq(s, 1, Len(s) - 1)

\* the position of the first character of s, from position from on, that is
\* in the set stops; Len(s) + 1 when there is none
FirstOf(s, stops, from) ==
    IF \E i \in from..Len(s) : s[i] \in stops
    THEN CHOOSE i \in from..Len(s) :
            s[i] \in stops /\ \A j \in from..(i - 1) : s[j] \notin stops
    ELSE Len(s) + 1

(***************************************************************************)
(* The URL class (WHATWG URL): parsing, resolution against a base and      *)
(* serialisation, for the URLs the model draws                             *)
(***************************************************************************)
s_http == <<"h", "t", "t", "p">>
s_https == <<"h", "t", "t", "p", "s">>

SpecialSchemes == {s_http, s_https}

\* the port a special scheme uses when none is written
DefaultPort(scheme) ==
    IF scheme = s_http THEN <<"8", "0">>
    ELSE IF scheme = s_https THEN <<"4", "4", "3">>
    ELSE <<>>

\* the result of a parse that failed (new URL throws a TypeError)
URLFailure ==
    [ok |-> FALSE, scheme |-> <<>>, host |-> <<>>, port |-> <<>>, path |-> <<>>,
     hasQuery |-> FALSE, query |-> <<>>, hasFragment |-> FALSE, fragment |-> <<>>,
     opaque |-> FALSE]

\* characters a scheme may hold after its first letter
SchemeChars == Range(LowerAlphabet) \cup Range(UpperAlphabet) \cup Digits \cup {"+", "-", "."}

\* characters a host may not hold
ForbiddenHostChars == {" ", "<", ">", "[", "]", "^", "|", "%", "@"}

\* the position of the colon ending a well-formed scheme, 0 when s has none
SchemeEnd(s) ==
    LET c == indexOf(s, <<":">>)
    IN IF c > 1 /\ IsAlpha(s[1]) /\ \A i \in 1..(c - 1) : s[i] \in SchemeChars
       THEN c ELSE 0

\* the number of "/" characters s begins with
RECURSIVE LeadingSlashes(_)
LeadingSlashes(s) ==
    IF s # <<>> /\ Head(s) = "/" THEN 1 + LeadingSlashes(Tail(s)) ELSE 0

\* path, query and fragment of the remainder r of a URL (r starts at the path)
ParseTail(r) ==
    With(FirstOf(r, {"?", "#"}, 1), LAMBDA pEnd :
    With(pEnd <= Len(r) /\ r[pEnd] = "?", LAMBDA hasQ :
    With(IF hasQ THEN FirstOf(r, {"#"}, pEnd + 1) ELSE pEnd, LAMBDA qEnd :
        [path |-> SubSeq(r, 1, pEnd - 1),
         hasQuery |-> hasQ,
         query |-> IF hasQ THEN SubSeq(r, pEnd + 1, qEnd - 1) ELSE <<>>,
         hasFragment |-> qEnd <= Len(r),
         fragment |-> IF qEnd <= Len(r) THEN SubSeq(r, qEnd + 1, Len(r)) ELSE <<>>])))

\* host, port, path, query and fragment of a special-scheme URL whose text
\* after the scheme's colon and slashes is r
ParseSpecial(scheme, r) ==
    With(FirstOf(r, {"/", "?", "#"}, 1), LAMBDA aEnd :
    With(SubSeq(r, 1, aEnd - 1), LAMBDA auth :
    With(indexOf(auth, <<":">>), LAMBDA colon :
    With(toLowerCase(IF colon = 0 THEN auth ELSE SubSeq(auth, 1, colon - 1)), LAMBDA host :
    With(IF colon = 0 THEN <<>> ELSE SubSeq(auth, colon + 1, Len(auth)), LAMBDA rawPort :
    With(ParseTail(SubSeq(r, aEnd, Len(r))), LAMBDA t :
        IF host = <<>> \/ Range(host) \cap ForbiddenHostChars # {}
           \/ ~(Range(rawPort) \subseteq Digits)
        THEN URLFailure
        ELSE [ok |-> TRUE, scheme |-> scheme, host |-> host,
              port |-> IF rawPort = DefaultPort(scheme) THEN <<>> ELSE rawPort,
              path |-> IF t.path = <<>> THEN <<"/">> ELSE t.path,
              hasQuery |-> t.hasQuery, query |-> t.query,
              hasFragment |-> t.hasFragment, fragment |-> t.fragment,
              opaque |-> FALSE]))))))

\* a URL of another scheme, whose text after the scheme's colon is rest: the
\* path is kept as written and there is no host
ParseOpaque(scheme, rest) ==
    With(ParseTail(rest), LAMBDA t :
        [ok |-> TRUE, scheme |-> scheme, host |-> <<>>, port |-> <<>>,
         path |-> t.path,
         hasQuery |-> t.hasQuery, query |-> t.query,
         hasFragment |-> t.hasFragment, fragment |-> t.fragment,
         opaque |-> TRUE])

\* new URL(s) for a string s that carries its own scheme
ParseAbsolute(s) ==
    With(SchemeEnd(s), LAMBDA c :
    With(toLowerCase(SubSeq(s, 1, c - 1)), LAMBDA scheme :
    With(SubSeq(s, c + 1, Len(s)), LAMBDA rest :
        IF scheme \in SpecialSchemes
        THEN ParseSpecial(scheme, SubSeq(rest, LeadingSlashes(rest) + 1, Len(rest)))
        ELSE ParseOpaque(scheme, rest))))

\* s without its leading and trailing spaces
RECURSIVE StripSpaces(_)
StripSpaces(s) ==
    IF s = <<>> THEN s
    ELSE IF Head(s) = " " THEN StripSpaces(Tail(s))
    ELSE IF s[Len(s)] = " " THEN StripSpaces(SubSeq(s, 1, Len(s) - 1))
    ELSE s

\* new URL(input): a string without a scheme does not parse when no base is given
ParseURL(input) ==
    With(StripSpaces(input), LAMBDA s :
        IF SchemeEnd(s) = 0 THEN URLFailure ELSE ParseAbsolute(s))

\* URL.prototype.toString (the href)
Serialize(u) ==
    u.scheme \o <<":">>
    \o (IF u.opaque THEN <<>> ELSE <<"/", "/">> \o u.host)
    \o (IF u.port = <<>> THEN <<>> ELSE <<":">> \o u.port)
    \o u.path
    \o (IF u.hasQuery THEN <<"?">> \o u.query ELSE <<>>)
    \o (IF u.hasFragment THEN <<"#">> \o u.fragment ELSE <<>>)

\* URL.prototype.pathname
pathname(u) == u.path

\* URL.prototype.hostname
hostname(u) == u.host

\* URL.prototype.protocol
protocol(u) == u.scheme \o <<":">>

\* scheme, host and port of u, as written in front of a path
OriginPrefix(u) ==
    u.scheme \o <<":", "/", "/">> \o u.host
    \o (IF u.port = <<>> THEN <<>> ELSE <<":">> \o u.port)

\* the position of the last "/" of s, 0 when there is none
LastSlash(s) ==
    IF \E i \in 1..Len(s) : s[i] = "/"
    THEN CHOOSE i \in 1..Len(s) : s[i] = "/" /\ \A j \in (i + 1)..Len(s) : s[j] # "/"
    ELSE 0

\* href resolved against the parsed base URL b
Resolve(href, b) ==
    IF ~b.ok \/ b.opaque THEN URLFailure
    ELSE IF href = <<>>
         THEN [b EXCEPT !.hasFragment = FALSE, !.fragment = <<>>]
    ELSE IF startsWith(href, <<"/", "/">>)
         THEN ParseAbsolute(b.scheme \o <<":">> \o href)
    ELSE IF Head(href) = "/"
         THEN ParseAbsolute(OriginPrefix(b) \o href)
    ELSE IF Head(href) = "?"
         THEN ParseAbsolute(OriginPrefix(b) \o b.path \o href)
    ELSE IF Head(href) = "#"
         THEN ParseAbsolute(OriginPrefix(b) \o b.path
                            \o (IF b.hasQuery THEN <<"?">> \o b.query ELSE <<>>)
                            \o href)
    ELSE ParseAbsolute(OriginPrefix(b) \o SubSeq(b.path, 1, LastSlash(b.path)) \o href)

\* new URL(href, base): href parsed on its own when it carries a scheme,
\* resolved against the base URL otherwise
ParseURLBase(input, base) ==
    With(StripSpaces(input), LAMBDA href :
        IF SchemeEnd(href) # 0 THEN ParseAbsolute(href)
        ELSE With(ParseURL(base), LAMBDA b : Resolve(href, b)))

(***************************************************************************)
(* normalizeUrl and areUrlsEquivalent                                      *)
(***************************************************************************)
\* the port and "www." replacements and the query and fragment splits of
\* normalizeUrl, applied to the lower-cased and slash-stripped string
StripPortWwwQueryHash(normalized) ==
    With(replace(normalized, <<":", "8", "0", "/">>, <<"/">>), LAMBDA no80 :
    With(replace(no80, <<":", "4", "4", "3", "/">>, <<"/">>), LAMBDA noPort :
    With(replace(noPort, <<":", "/", "/", "w", "w", "w", ".">>, <<":", "/", "/">>), LAMBDA noWww :
    With(splitFirst(noWww, <<"?">>), LAMBDA urlWithoutQuery :
        splitFirst(urlWithoutQuery, <<"#">>)))))

\* normalizeUrl(url): the comparison form of a URL; the input itself when it
\* does not parse (the catch branch)
normalizeUrl(url) ==
    With(ParseURL(url), LAMBDA parsedUrl :
        IF ~parsedUrl.ok THEN url
        ELSE With(toLowerCase(Serialize(parsedUrl)), LAMBDA normalized :
                StripPortWwwQueryHash(
                    IF endsWith(normalized, <<"/">>) /\ pathname(parsedUrl) # <<"/">>
                    THEN sliceDropLast(normalized) ELSE normalized)))

\* areUrlsEquivalent(url1, url2)
areUrlsEquivalent(url1, url2) == normalizeUrl(url1) = normalizeUrl(url2)

(***************************************************************************)
(* The URLs the normaliser is run on                                       *)
(***************************************************************************)
h_example == <<"e", "x", "a", "m", "p", "l", "e", ".", "c", "o", "m">>
h_Example == <<"E", "x", "a", "m", "p", "l", "e", ".", "c", "o", "m">>
h_www == <<"w", "w", "w", ".", "e", "x", "a", "m", "p", "l", "e", ".", "c", "o", "m">>
h_wwwwww == <<"w", "w", "w", ".", "w", "w", "w", ".", "e", "x", "a", "m", "p", "l", "e", ".", "c", "o", "m">>
p_page == <<"/", "p", "a", "g", "e">>
p_pageS == <<"/", "p", "a", "g", "e", "/">>
p_Page == <<"/", "P", "a", "g", "e">>
p_PageS == <<"/", "P", "a", "g", "e", "/">>
p_pageSS == <<"/", "p", "a", "g", "e", "/", "/">>
p_x == <<"/", "x">>
p_port == <<"/", "a", ":", "8", "0", "/", "b">>
q_1 == <<"?", "q", "=", "1">>
q_slash == <<"?", "q", "=", "/">>
f_top == <<"#", "t", "o", "p">>
sep == <<":", "/", "/">>

NormSchemes == {s_http, s_https}
NormHosts == {h_example, h_Example, h_www, h_wwwwww}
NormPorts == {<<>>, <<":", "8", "0">>, <<":", "4", "4", "3">>, <<":", "8", "0", "8", "0">>}
NormPaths == {<<>>, <<"/">>, p_page, p_pageS, p_PageS, p_pageSS, p_x, p_port}
NormQueries == {<<>>, q_1, q_slash}
NormFragments == {<<>>, f_top}

\* strings that are not URLs: normalizeUrl hands them back unchanged
NotUrls == {h_example \o p_page, p_pageS, <<"h", "t", "t", "p", "s", ":", "/", "/">>}

ValidInputs ==
    {s \o sep \o h \o pt \o p \o q \o f :
        s \in NormSchemes, h \in NormHosts, pt \in NormPorts, p \in NormPaths,
        q \in NormQueries, f \in NormFragments}

NormInputs == ValidInputs \cup NotUrls

\* u with "www." written in front of its host
InsertWww(u) ==
    With(indexOf(u, sep), LAMBDA i :
        SubSeq(u, 1, i + 2) \o <<"w", "w", "w", ".">> \o SubSeq(u, i + 3, Len(u)))

\* the authority of u (host and port as written)
AuthorityOf(u) ==
    With(indexOf(u, sep), LAMBDA i :
        SubSeq(u, i + 3, FirstOf(u, {"/", "?", "#"}, i + 3) - 1))

\* u with the default port of its scheme written after its host
InsertDefaultPort(u) ==
    With(indexOf(u, sep), LAMBDA i :
    With(FirstOf(u, {"/", "?", "#"}, i + 3), LAMBDA e :
        SubSeq(u, 1, e - 1) \o <<":">> \o DefaultPort(toLowerCase(SubSeq(u, 1, i - 1)))
        \o SubSeq(u, e, Len(u))))

\* u with one more "/" at the end of its path (before its query and fragment)
AppendSlash(u) ==
    With(FirstOf(u, {"?", "#"}, 1), LAMBDA e :
        SubSeq(u, 1, e - 1) \o <<"/">> \o SubSeq(u, e, Len(u)))

\* the URLs that differ from the valid URL u only in letter case, in one
\* trailing slash (u has none), in an explicit default port (u has no port) or
\* in a leading "www." (u has none)
PresentationalVariants(u) ==
    With(AuthorityOf(u), LAMBDA auth :
        {toUpperCase(u)}
        \cup (IF endsWith(SubSeq(u, 1, FirstOf(u, {"?", "#"}, 1) - 1), <<"/">>)
              THEN {} ELSE {AppendSlash(u)})
        \cup (IF indexOf(auth, <<":">>) # 0 THEN {} ELSE {InsertDefaultPort(u)})
        \cup (IF startsWith(toLowerCase(auth), <<"w", "w", "w", ".">>)
              THEN {} ELSE {InsertWww(u)}))

ex_PageSlash == s_https \o sep \o h_Example \o p_PageS
ex_page == s_https \o sep \o h_example \o p_page
ex_wwwPort == s_https \o sep \o h_www \o <<":", "4", "4", "3">> \o p_x
ex_x == s_https \o sep \o h_example \o p_x
ex_root == s_https \o sep \o h_example \o <<"/">>

CompareOthers == {ex_page, ex_x, ex_root}

(***************************************************************************)
(* Running the normaliser                                                  *)
(***************************************************************************)
\* no report file has been written
NoFile == [header |-> <<>>, rows |-> <<>>, summary |-> <<>>]

AuditIdle ==
    /\ pc = "done"
    /\ sitemapUrls = <<>>
    /\ sIdx = 1
    /\ urls = <<>>
    /\ idx = 0
    /\ results = <<>>
    /\ curUrl = <<>>
    /\ response = [kind |-> "none", status |-> 0, message |-> ""]
    /\ canonicalLinks = <<>>
    /\ status = "OK"
    /\ explanation = <<>>
    /\ canonicalUrl = <<>>
    /\ canonicalResponse = [kind |-> "none", status |-> 0, message |-> ""]
    /\ requests = <<>>
    /\ inflight = {}
    /\ csvFile = NoFile
    /\ summaries = <<>>
    /\ grandTotalOK = 0
    /\ grandTotalFail = 0
    /\ grandTotalChecked = 0

NormInit ==
    /\ AuditIdle
    /\ nStage = "input"
    /\ nUrl \in NormInputs
    /\ nOnce = <<>>
    /\ nTwice = <<>>
    /\ nOther = <<>>
    /\ nOtherNorm = <<>>
    /\ nEquiv = FALSE

Normalize ==
    /\ nStage = "input"
    /\ nStage' = "once"
    /\ nOnce' = normalizeUrl(nUrl)
    /\ UNCHANGED <<avars, nUrl, nTwice, nOther, nOtherNorm, nEquiv>>

NormalizeAgain ==
    /\ nStage = "once"
    /\ nStage' = "twice"
    /\ nTwice' = normalizeUrl(nOnce)
    /\ UNCHANGED <<avars, nUrl, nOnce, nOther, nOtherNorm, nEquiv>>

Compare ==
    /\ nStage = "once"
    /\ \E other \in CompareOthers \cup
                    (IF ParseURL(nUrl).ok THEN PresentationalVariants(nUrl) ELSE {}) :
          /\ nOther' = other
          /\ nOtherNorm' = normalizeUrl(other)
          /\ nEquiv' = areUrlsEquivalent(nUrl, other)
    /\ nStage' = "compared"
    /\ UNCHANGED <<avars, nUrl, nOnce, nTwice>>

NormNext == Normalize \/ NormalizeAgain \/ Compare

SpecNormalize == NormInit /\ [][NormNext]_vars

\* C1: normalizeUrl is idempotent: for every valid absolute URL u,
\* normalizeUrl(normalizeUrl(u)) = normalizeUrl(u)
C1_Idempotent ==
    (nStage = "twice" /\ ParseURL(nUrl).ok) => nTwice = nOnce

\* C1 (failing input): the URL http://example.com/page// has been normalised
\* twice and the second pass changed the result of the first
C1_Failing ==
    /\ nStage = "twice"
    /\ nUrl = s_http \o sep \o h_example \o p_pageSS
    /\ nOnce = s_http \o sep \o h_example \o p_pageS
    /\ nTwice = s_http \o sep \o h_example \o p_page

\* C2: URLs that differ only in letter case, one trailing slash, an explicit
\* default port or a leading "www." have the same normalized form; the root
\* slash is kept; the three examples of the specification hold; and
\* areUrlsEquivalent is true exactly when the two normalized strings are equal
C2_Equivalence ==
    /\ (nStage = "compared" => (nEquiv <=> nOnce = nOtherNorm))
    /\ (nStage = "compared" /\ ParseURL(nUrl).ok /\ nOther \in PresentationalVariants(nUrl)
          => nEquiv)
    /\ (nStage = "compared" /\ nUrl = ex_PageSlash /\ nOther = ex_page => nEquiv)
    /\ (nStage = "compared" /\ nUrl = ex_wwwPort /\ nOther = ex_x => nEquiv)
    /\ (nStage = "compared" /\ nUrl = ex_page /\ nOther = ex_x => ~nEquiv)
    /\ (nStage # "input" /\ nUrl = ex_root => nOnce = ex_root)

\* C2 (failing input): https://example.com/page?q=1 and
\* https://example.com/page/?q=1, which differ only in one trailing slash of
\* the path, have been compared and found not equivalent
C2_Failing ==
    /\ nStage = "compared"
    /\ nUrl = ex_page \o q_1
    /\ nOther = ex_page \o <<"/">> \o q_1
    /\ nOnce = ex_page
    /\ nOtherNorm = ex_page \o <<"/">>
    /\ ~nEquiv

(***************************************************************************)
(* runCanonicalChecks: the canonical rule evaluator                        *)
(***************************************************************************)
\* one sentence of an explanation: its fixed text and the value interpolated
\* into it ("" when the sentence has none)
Reason(text, arg) == [text |-> text, arg |-> arg]

R_missing == Reason("Canonical tag is missing.", "")
R_multiple == Reason("Multiple canonical tags detected.", "")
R_empty == Reason("Canonical tag is empty.", "")
R_notInHead == Reason("Canonical tag is not in the head section.", "")
R_redirecting == Reason("Canonical URL is redirecting.", "")
R_domain == Reason("Canonical URL uses a different domain.", "")
R_protocol == Reason("Canonical URL uses a different protocol.", "")
R_notAbsolute == Reason("Canonical URL is not absolute.", "")
R_notLowercase == Reason("Canonical URL is not lowercase.", "")
R_noErrors == Reason("No errors", "")

\* `${canonicalResponse.status}`
StatusText(code) ==
    CASE code = 200 -> "200" [] code = 301 -> "301" [] code = 302 -> "302"
      [] code = 307 -> "307" [] code = 308 -> "308" [] code = 404 -> "404"
      [] code = 500 -> "500" [] OTHER -> "?"

R_status(code) == Reason("Canonical URL returned status", StatusText(code))
R_canonicalError(message) == Reason("Error fetching canonical URL", message)
R_fetchError(message) == Reason("Fetch error", message)

\* the message of the TypeError new URL throws
InvalidUrlMessage == "Invalid URL"

\* Fail with the assignment to status left out
Fail_KeepsStatus(v, reason) ==
    [status |-> v.status, explanation |-> Append(v.explanation, reason)]

\* status = 'FAIL'; explanation += reason
Fail(v, reason) ==
    [status |-> "FAIL", explanation |-> Append(v.explanation, reason)]

\* the value runCanonicalChecks returns at the end of its try block
Result(u, v) ==
    [url |-> u, status |-> v.status,
     explanation |-> IF v.explanation = <<>> THEN <<R_noErrors>> ELSE v.explanation]

\* the value runCanonicalChecks returns from its catch block
ErrorResult(u, message) ==
    [url |-> u, status |-> "FAIL", explanation |-> <<R_fetchError(message)>>]

\* the missing branch with the explanation left untouched
MissingResult_NoReason(pageUrl) ==
    Result(pageUrl, [status |-> "FAIL", explanation |-> <<>>])

\* the value returned when the page holds no canonical link
MissingResult(pageUrl) ==
    Result(pageUrl, Fail([status |-> "OK", explanation |-> <<>>], R_missing))

CheckMultiple(v, links) ==
    IF Len(links) > 1 THEN Fail(v, R_multiple) ELSE v

CheckInHead(v, link) ==
    IF ~link.inHead THEN Fail(v, R_notInHead) ELSE v

CheckStatus(v, answer) ==
    IF answer.status # 200 THEN Fail(v, R_status(answer.status)) ELSE v

CheckRedirect(v, answer) ==
    IF answer.status \in {301, 302, 307, 308} THEN Fail(v, R_redirecting) ELSE v

\* the redirect test written as the else branch of the status test
CheckCanonicalResponse_ElseIf(v, answer) ==
    IF answer.kind = "error"
    THEN Fail(v, R_canonicalError(answer.message))
    ELSE IF answer.status # 200 THEN CheckStatus(v, answer) ELSE CheckRedirect(v, answer)

\* the try block around fetch(canonicalUrl) and its catch
CheckCanonicalResponse(v, answer) ==
    IF answer.kind = "error"
    THEN Fail(v, R_canonicalError(answer.message))
    ELSE CheckRedirect(CheckStatus(v, answer), answer)

CheckDomain(v, pageUrl, canonical) ==
    IF hostname(ParseURL(pageUrl)) # hostname(ParseURL(canonical))
    THEN Fail(v, R_domain) ELSE v

\* the protocol test made only when the canonical URL is an http(s) URL
CheckProtocol_WebOnly(v, pageUrl, canonical) ==
    IF ParseURL(canonical).scheme \in SpecialSchemes
       /\ protocol(ParseURL(pageUrl)) # protocol(ParseURL(canonical))
    THEN Fail(v, R_protocol) ELSE v

CheckProtocol(v, pageUrl, canonical) ==
    IF protocol(ParseURL(pageUrl)) # protocol(ParseURL(canonical))
    THEN Fail(v, R_protocol) ELSE v

\* the absolute test with the 'http://' prefix forgotten
CheckAbsolute_HttpsOnly(v, canonical) ==
    IF ~startsWith(canonical, s_https \o sep) THEN Fail(v, R_notAbsolute) ELSE v

CheckAbsolute(v, canonical) ==
    IF ~startsWith(canonical, s_http \o sep) /\ ~startsWith(canonical, s_https \o sep)
    THEN Fail(v, R_notAbsolute) ELSE v

\* the lower-case test made only when no earlier rule was violated
CheckLowercase_OnlyIfFirst(v, canonical) ==
    IF v.status = "OK" /\ canonical # toLowerCase(canonical)
    THEN Fail(v, R_notLowercase) ELSE v

CheckLowercase(v, canonical) ==
    IF canonical # toLowerCase(canonical) THEN Fail(v, R_notLowercase) ELSE v

\* runCanonicalChecks from the parsed document to its first await or return:
\* returned is TRUE when the function returns without fetching the canonical
\* target (result is then the value it returns)
BeforeCanonicalFetch(pageUrl, links) ==
    IF Len(links) = 0
    THEN [returned |-> TRUE,
          result |-> MissingResult(pageUrl),
          v |-> [status |-> "FAIL", explanation |-> <<>>], canonical |-> <<>>]
    ELSE With(CheckMultiple([status |-> "OK", explanation |-> <<>>], links), LAMBDA v1 :
         With(links[1], LAMBDA canonicalLink :
            IF ~canonicalLink.hasHref \/ canonicalLink.href = <<>>
            THEN [returned |-> TRUE, result |-> Result(pageUrl, Fail(v1, R_empty)),
                  v |-> v1, canonical |-> <<>>]
            ELSE With(ParseURLBase(canonicalLink.href, pageUrl), LAMBDA parsed :
                    IF ~parsed.ok
                    THEN [returned |-> TRUE,
                          result |-> ErrorResult(pageUrl, InvalidUrlMessage),
                          v |-> v1, canonical |-> <<>>]
                    ELSE [returned |-> FALSE,
                          result |-> Result(pageUrl, v1),
                          v |-> CheckInHead(v1, canonicalLink),
                          canonical |-> Serialize(parsed)])))

\* runCanonicalChecks from the outcome of fetch(canonicalUrl) to its return
AfterCanonicalFetch(pageUrl, v, canonical, answer) ==
    IF ~ParseURL(pageUrl).ok \/ ~ParseURL(canonical).ok
    THEN ErrorResult(pageUrl, InvalidUrlMessage)
    ELSE With(CheckCanonicalResponse(v, answer), LAMBDA v1 :
         With(CheckDomain(v1, pageUrl, canonical), LAMBDA v2 :
         With(CheckProtocol(v2, pageUrl, canonical), LAMBDA v3 :
         With(CheckAbsolute(v3, canonical), LAMBDA v4 :
            Result(pageUrl, CheckLowercase(v4, canonical))))))

(***************************************************************************)
(* saveResultsToCSV                                                        *)
(***************************************************************************)
\* the number of results with status OK
RECURSIVE CountOK(_)
CountOK(rs) ==
    IF rs = <<>> THEN 0
    ELSE (IF Head(rs).status = "OK" THEN 1 ELSE 0) + CountOK(Tail(rs))

\* the failure count with the else forgotten: every row is counted
CountFail_EveryRow(rs) == Len(rs)

\* the number of results with any other status
RECURSIVE CountFail(_)
CountFail(rs) ==
    IF rs = <<>> THEN 0
    ELSE (IF Head(rs).status = "OK" THEN 0 ELSE 1) + CountFail(Tail(rs))

\* saveResultsToCSV(results): the file it writes (the header row, one row per
\* result, the three summary lines) and the totals it returns
saveResultsToCSV(rs) ==
    [file |-> [header |-> <<"URL", "Status", "Explanation">>,
               rows |-> [k \in 1..Len(rs) |-> <<rs[k].url, rs[k].status, rs[k].explanation>>],
               summary |-> <<Len(rs), CountOK(rs), CountFail(rs)>>],
     totals |-> [totalOK |-> CountOK(rs),
                 totalFail |-> CountFail(rs),
                 totalChecked |-> Len(rs)]]

(***************************************************************************)
(* runAudit: the loop over the sitemaps and over the URLs of each, cut at  *)
(* its awaits                                                              *)
(***************************************************************************)
Request(kind, target) == [kind |-> kind, target |-> target]

NoResponse == [kind |-> "none", status |-> 0, message |-> ""]
StatusResponse(code) == [kind |-> "status", status |-> code, message |-> ""]
ErrorResponse(message) == [kind |-> "error", status |-> 0, message |-> message]
\* the response to fetch(url), whose body parses into a document; its status
\* code is never read
PageResponse == [kind |-> "html", status |-> 0, message |-> ""]

\* fetch accepts absolute http and https URLs only
Fetchable(target) ==
    With(ParseURL(target), LAMBDA u : u.ok /\ u.scheme \in SpecialSchemes)

\* the message of the error fetch throws for any other URL
UnsupportedMessage == "Only HTTP(S) protocols are supported"

\* a push that drops the results of the catch block
PushResult_SkipsErrors(result) ==
    /\ results' = IF result.explanation[1].text = "Fetch error"
                  THEN results ELSE Append(results, result)
    /\ idx' = idx + 1
    /\ pc' = "urlLoop"
    /\ inflight' = {}

\* results.push(result); i++
PushResult(result) ==
    /\ results' = Append(results, result)
    /\ idx' = idx + 1
    /\ pc' = "urlLoop"
    /\ inflight' = {}

\* for (const sitemapUrl of sitemapUrls): a new iteration starts, with its own
\* urls, results and report file, and the sitemap is requested
BeginSitemap ==
    /\ pc = "loop"
    /\ sIdx <= Len(sitemapUrls)
    /\ pc' = "awaitSitemap"
    /\ inflight' = {Request("sitemap", sitemapUrls[sIdx])}
    /\ urls' = <<>>
    /\ idx' = 0
    /\ results' = <<>>
    /\ csvFile' = NoFile
    /\ curUrl' = <<>>
    /\ response' = NoResponse
    /\ canonicalLinks' = <<>>
    /\ status' = "OK"
    /\ explanation' = <<>>
    /\ canonicalUrl' = <<>>
    /\ canonicalResponse' = NoResponse
    /\ requests' = <<>>
    /\ UNCHANGED <<sitemapUrls, sIdx, summaries, grandTotalOK, grandTotalFail,
                   grandTotalChecked, nvars>>

\* fetchSitemapUrls returns the URLs of the sitemap
SitemapLoaded(contents) ==
    /\ pc = "awaitSitemap"
    /\ \E us \in contents : urls' = us
    /\ pc' = "urlLoop"
    /\ inflight' = {}
    /\ UNCHANGED <<sitemapUrls, sIdx, idx, results, checkVars, requests, totalVars, nvars>>

\* fetchSitemapUrls throws: nothing in runAudit catches it
SitemapFailed ==
    /\ pc = "awaitSitemap"
    /\ pc' = "aborted"
    /\ inflight' = {}
    /\ UNCHANGED <<loopVars, results, checkVars, requests, totalVars, nvars>>

\* runCanonicalChecks(urls[i]) is called and awaits fetch(url)
BeginCheck ==
    /\ pc = "urlLoop"
    /\ idx < Len(urls)
    /\ curUrl' = urls[idx + 1]
    /\ response' = NoResponse
    /\ canonicalLinks' = <<>>
    /\ status' = "OK"
    /\ explanation' = <<>>
    /\ canonicalUrl' = <<>>
    /\ canonicalResponse' = NoResponse
    /\ requests' = <<Request("page", urls[idx + 1])>>
    /\ inflight' = {Request("page", urls[idx + 1])}
    /\ pc' = "awaitPage"
    /\ UNCHANGED <<loopVars, results, totalVars, nvars>>

\* the page failure with no catch block around it
PageFailed_Propagates(errors) ==
    /\ pc = "awaitPage"
    /\ pc' = "aborted"
    /\ inflight' = {}
    /\ \E message \in (IF Fetchable(curUrl) THEN errors ELSE {UnsupportedMessage}) :
          response' = ErrorResponse(message)
    /\ UNCHANGED <<loopVars, results, curUrl, canonicalLinks, status, explanation,
                   canonicalUrl, canonicalResponse, requests, totalVars, nvars>>

\* fetch(url), response.text() or new JSDOM(html) throws: the catch block
\* returns the result
PageFailed(errors) ==
    /\ pc = "awaitPage"
    /\ \E message \in (IF Fetchable(curUrl) THEN errors ELSE {UnsupportedMessage}) :
          /\ response' = ErrorResponse(message)
          /\ PushResult(ErrorResult(curUrl, message))
          /\ status' = "FAIL"
          /\ explanation' = <<R_fetchError(message)>>
    /\ UNCHANGED <<sitemapUrls, sIdx, urls, curUrl, canonicalLinks, canonicalUrl,
                   canonicalResponse, requests, totalVars, nvars>>

\* the page is fetched and parsed: the checks run up to fetch(canonicalUrl),
\* or to the return when the canonical target is not fetched
PageLoaded(docs) ==
    /\ pc = "awaitPage"
    /\ Fetchable(curUrl)
    /\ response' = PageResponse
    /\ \E links \in docs :
          \E b \in {BeforeCanonicalFetch(curUrl, links)} :
             /\ canonicalLinks' = links
             /\ IF b.returned
                THEN /\ PushResult(b.result)
                     /\ status' = b.result.status
                     /\ explanation' = b.result.explanation
                     /\ UNCHANGED <<canonicalUrl, requests>>
                ELSE /\ status' = b.v.status
                     /\ explanation' = b.v.explanation
                     /\ canonicalUrl' = b.canonical
                     /\ requests' = Append(requests, Request("canonical", b.canonical))
                     /\ inflight' = {Request("canonical", b.canonical)}
                     /\ pc' = "awaitCanonical"
                     /\ UNCHANGED <<results, idx>>
    /\ UNCHANGED <<sitemapUrls, sIdx, urls, curUrl, canonicalResponse, totalVars, nvars>>

\* what runCanonicalChecks does once fetch(canonicalUrl) has settled
CanonicalSettled(answer) ==
    \E r \in {AfterCanonicalFetch(curUrl, [status |-> status, explanation |-> explanation],
                                  canonicalUrl, answer)} :
       /\ canonicalResponse' = answer
       /\ status' = r.status
       /\ explanation' = r.explanation
       /\ PushResult(r)
       /\ UNCHANGED <<sitemapUrls, sIdx, urls, curUrl, response, canonicalLinks,
                      canonicalUrl, requests, totalVars, nvars>>

\* fetch(canonicalUrl) resolves with a response
CanonicalResponded(statuses) ==
    /\ pc = "awaitCanonical"
    /\ Fetchable(canonicalUrl)
    /\ \E code \in statuses : CanonicalSettled(StatusResponse(code))

\* a failed canonical fetch that is tried once more before it is reported
CanonicalFailed_Retries(errors) ==
    /\ pc = "awaitCanonical"
    /\ IF Len(requests) < 3
       THEN /\ requests' = Append(requests, Request("canonical", canonicalUrl))
            /\ UNCHANGED <<pc, loopVars, results, checkVars, inflight, totalVars, nvars>>
       ELSE \E message \in (IF Fetchable(canonicalUrl) THEN errors ELSE {UnsupportedMessage}) :
               CanonicalSettled(ErrorResponse(message))

\* fetch(canonicalUrl) throws
CanonicalFailed(errors) ==
    /\ pc = "awaitCanonical"
    /\ \E message \in (IF Fetchable(canonicalUrl) THEN errors ELSE {UnsupportedMessage}) :
          CanonicalSettled(ErrorResponse(message))

\* the URL loop is over: saveResultsToCSV writes the report and its totals
\* are added to the grand totals
SaveReport ==
    /\ pc = "urlLoop"
    /\ idx = Len(urls)
    /\ \E saved \in {saveResultsToCSV(results)} :
          /\ csvFile' = saved.file
          /\ summaries' = Append(summaries, saved.totals)
          /\ grandTotalOK' = grandTotalOK + saved.totals.totalOK
          /\ grandTotalFail' = grandTotalFail + saved.totals.totalFail
          /\ grandTotalChecked' = grandTotalChecked + saved.totals.totalChecked
    /\ sIdx' = sIdx + 1
    /\ pc' = "loop"
    /\ UNCHANGED <<sitemapUrls, urls, idx, results, checkVars, requests, inflight, nvars>>

\* the sitemap loop is over: the overall summary is printed
Finish ==
    /\ pc = "loop"
    /\ sIdx > Len(sitemapUrls)
    /\ pc' = "done"
    /\ UNCHANGED <<loopVars, results, checkVars, requests, inflight, totalVars, nvars>>

NormIdle ==
    /\ nStage = "input"
    /\ nUrl = <<>>
    /\ nOnce = <<>>
    /\ nTwice = <<>>
    /\ nOther = <<>>
    /\ nOtherNorm = <<>>
    /\ nEquiv = FALSE

\* the state of runAudit once the configuration config is loaded
AuditInit(config) ==
    /\ pc = "loop"
    /\ sitemapUrls = config
    /\ sIdx = 1
    /\ urls = <<>>
    /\ idx = 0
    /\ results = <<>>
    /\ curUrl = <<>>
    /\ response = NoResponse
    /\ canonicalLinks = <<>>
    /\ status = "OK"
    /\ explanation = <<>>
    /\ canonicalUrl = <<>>
    /\ canonicalResponse = NoResponse
    /\ requests = <<>>
    /\ inflight = {}
    /\ csvFile = NoFile
    /\ summaries = <<>>
    /\ grandTotalOK = 0
    /\ grandTotalFail = 0
    /\ grandTotalChecked = 0
    /\ NormIdle

(***************************************************************************)
(* The pages, documents and responses the evaluator is run on              *)
(***************************************************************************)
u_httpPage == s_http \o sep \o h_example \o p_page
u_noScheme == h_example \o p_page
sitemapXml == <<"/", "s", "i", "t", "e", "m", "a", "p", ".", "x", "m", "l">>

a_upper == <<"H", "T", "T", "P", ":", "/", "/", "E", "x", "a", "m", "p", "l", "e", ".", "C", "O", "M", "/", "P", "a", "g", "e">>
a_other == s_https \o sep \o <<"o", "t", "h", "e", "r", ".", "o", "r", "g">> \o p_page
a_schemeRelative == <<"/", "/">> \o h_example \o p_page
a_mailto == <<"m", "a", "i", "l", "t", "o", ":", "a">>
a_noHost == s_https \o sep
a_blank == <<" ">>
a_wwwSlash == s_https \o sep \o h_www \o p_pageS
a_Page == s_https \o sep \o h_example \o p_Page

EvalHrefs ==
    {<<>>, ex_page, a_upper, a_other, p_page, <<"x">>, a_schemeRelative, a_mailto,
     a_noHost, a_blank, a_wwwSlash, a_Page}

Link(hasHref, href, inHead) == [hasHref |-> hasHref, href |-> href, inHead |-> inHead]

EvalLinks ==
    {Link(FALSE, <<>>, TRUE)} \cup {Link(TRUE, h, b) : h \in EvalHrefs, b \in BOOLEAN}

SecondLink == Link(TRUE, ex_x, TRUE)

EvalDocs == {<<>>} \cup {<<l>> : l \in EvalLinks} \cup {<<l, SecondLink>> : l \in EvalLinks}

EvalPageUrls == {ex_page, u_httpPage, u_noScheme}

EvalSitemaps == {<<>>} \cup {<<u>> : u \in EvalPageUrls}

EvalStatuses == {200, 301, 302, 307, 308, 404, 500}

FetchErrors == {"connect ECONNREFUSED"}

\* runAudit on one sitemap of at most one URL, whose page and canonical target
\* answer in every way drawn above
EvalInit == AuditInit(<<s_https \o sep \o h_example \o sitemapXml>>)

EvalNext ==
    \/ BeginSitemap
    \/ SitemapLoaded(EvalSitemaps)
    \/ SitemapFailed
    \/ BeginCheck
    \/ PageFailed(FetchErrors)
    \/ PageLoaded(EvalDocs)
    \/ CanonicalResponded(EvalStatuses)
    \/ CanonicalFailed(FetchErrors)
    \/ SaveReport
    \/ Finish

SpecEvaluate == EvalInit /\ [][EvalNext]_vars

(***************************************************************************)
(* The configurations, sitemaps and pages the audit is run on              *)
(***************************************************************************)
MaxUrls == 3
NumSitemaps == 2

DigitChars == <<"0", "1", "2", "3", "4", "5", "6", "7", "8", "9">>

\* the URL of the k-th configured sitemap
SitemapUrl(k) ==
    s_https \o sep \o h_example \o <<"/", "s", "i", "t", "e", "m", "a", "p">>
    \o <<DigitChars[k + 1]>> \o <<".", "x", "m", "l">>

AuditConfigs == {[k \in 1..n |-> SitemapUrl(k)] : n \in 0..NumSitemaps}

AuditPageUrls == {ex_page, ex_x}

AuditSitemaps == UNION {[1..n -> AuditPageUrls] : n \in 0..MaxUrls}

ValidLink == Link(TRUE, ex_page, TRUE)

\* no canonical link; a valid one; two of them; one whose href does not resolve
AuditDocs == {<<>>, <<ValidLink>>, <<ValidLink, SecondLink>>, <<Link(TRUE, a_noHost, TRUE)>>}

AuditStatuses == {200}

Init == \E config \in AuditConfigs : AuditInit(config)

Next ==
    \/ BeginSitemap
    \/ SitemapLoaded(AuditSitemaps)
    \/ SitemapFailed
    \/ BeginCheck
    \/ PageFailed(FetchErrors)
    \/ PageLoaded(AuditDocs)
    \/ CanonicalResponded(AuditStatuses)
    \/ CanonicalFailed(FetchErrors)
    \/ SaveReport
    \/ Finish

Spec == Init /\ [][Next]_vars

(***************************************************************************)
(* Properties of runCanonicalChecks                                        *)
(***************************************************************************)
\* runCanonicalChecks has returned and its result is the last of results
CheckDone == pc \in {"urlLoop", "loop", "done"} /\ results # <<>>

LastResult == results[Len(results)]

\* the page of the last check was fetched and parsed
PageParsed == CheckDone /\ response.kind = "html"

\* the position of x in the sequence q, 0 when x is not in q
PositionIn(q, x) ==
    IF \E k \in 1..Len(q) : q[k] = x THEN CHOOSE k \in 1..Len(q) : q[k] = x ELSE 0

\* C3: every result has status OK exactly when its explanation is the literal
\* 'No errors' and status FAIL exactly when its explanation names at least one
\* violation or error; and while a check runs its status is OK exactly when
\* no reason has been accumulated
C3_StatusIffNoReasons ==
    /\ \A k \in 1..Len(results) :
          /\ results[k].status \in {"OK", "FAIL"}
          /\ results[k].status = "OK" <=> results[k].explanation = <<R_noErrors>>
          /\ results[k].status = "FAIL" <=>
                (results[k].explanation # <<>> /\ R_noErrors \notin Range(results[k].explanation))
    /\ pc = "awaitCanonical" => (status = "OK" <=> explanation = <<>>)

\* C3 (witness): a check whose canonical-target fetch threw has returned FAIL
\* with the error among its reasons
C3_Witness ==
    /\ CheckDone
    /\ canonicalResponse.kind = "error"
    /\ LastResult.status = "FAIL"
    /\ R_canonicalError(canonicalResponse.message) \in Range(LastResult.explanation)

\* C5: a page with no canonical link element gets FAIL with the 'missing'
\* reason alone, and the check issues no request but the page fetch
C5_MissingOnly ==
    (PageParsed /\ Len(canonicalLinks) = 0) =>
        /\ LastResult = [url |-> curUrl, status |-> "FAIL", explanation |-> <<R_missing>>]
        /\ requests = <<Request("page", curUrl)>>
        /\ canonicalUrl = <<>>
        /\ canonicalResponse = NoResponse

\* C5 (witness): the page https://example.com/page was fetched, held no
\* canonical link, and the check has returned
C5_Witness ==
    /\ PageParsed
    /\ curUrl = ex_page
    /\ canonicalLinks = <<>>
    /\ LastResult.explanation = <<R_missing>>

\* the premise of C6: one canonical link with an href, inside head, whose
\* resolved URL is http(s), has the host and scheme of the page, holds no
\* upper-case letter, and whose target answered 200
ValidCanonical ==
    /\ PageParsed
    /\ Len(canonicalLinks) = 1
    /\ canonicalLinks[1].hasHref
    /\ canonicalLinks[1].href # <<>>
    /\ canonicalLinks[1].inHead
    /\ canonicalResponse = StatusResponse(200)
    /\ ParseURL(canonicalUrl).scheme \in SpecialSchemes
    /\ ParseURL(canonicalUrl).host = ParseURL(curUrl).host
    /\ ParseURL(canonicalUrl).scheme = ParseURL(curUrl).scheme
    /\ \A k \in 1..Len(canonicalUrl) : ~IsUpper(canonicalUrl[k])

\* C6: one in-head canonical link whose resolved URL is absolute, on the host
\* and scheme of the page, all lower-case and answering 200 gives status OK
\* with the explanation 'No errors'
C6_ValidIsOK ==
    ValidCanonical =>
        LastResult = [url |-> curUrl, status |-> "OK", explanation |-> <<R_noErrors>>]

\* C6 (witness): the page http://example.com/page with the root-relative
\* canonical href /page was checked and found valid
C6_Witness ==
    /\ ValidCanonical
    /\ curUrl = u_httpPage
    /\ canonicalLinks[1].href = p_page
    /\ LastResult.status = "OK"

\* C7: when the canonical target answers with status s, the status reason
\* carrying s is reported exactly when s is not 200 (and no status reason
\* carrying another code is), and the redirect reason exactly when s is 301,
\* 302, 307 or 308, the status reason first
C7_StatusAndRedirect ==
    (CheckDone /\ canonicalResponse.kind = "status") =>
        LET s == canonicalResponse.status
            E == LastResult.explanation
        IN /\ \A c \in EvalStatuses : R_status(c) \in Range(E) <=> (c = s /\ s # 200)
           /\ R_redirecting \in Range(E) <=> s \in {301, 302, 307, 308}
           /\ R_redirecting \in Range(E) =>
                 PositionIn(E, R_status(s)) + 1 = PositionIn(E, R_redirecting)

\* C7 (witness): a canonical target answered 301 and both reasons are reported
C7_Witness ==
    /\ CheckDone
    /\ canonicalResponse = StatusResponse(301)
    /\ R_status(301) \in Range(LastResult.explanation)
    /\ R_redirecting \in Range(LastResult.explanation)

\* C8: the page https://example.com/page with the canonical href
\* HTTP://Example.COM/Page gets FAIL with the protocol reason before the
\* lower-case reason; and in every check that reaches the canonical target
\* each of the multiple, head, domain, protocol and lower-case reasons is
\* reported exactly when its rule is violated, whatever else is violated
C8_AllViolationsReported ==
    /\ (PageParsed /\ curUrl = ex_page /\ canonicalLinks # <<>>
        /\ canonicalLinks[1] \in {Link(TRUE, a_upper, TRUE), Link(TRUE, a_upper, FALSE)}) =>
          /\ LastResult.status = "FAIL"
          /\ PositionIn(LastResult.explanation, R_protocol) > 0
          /\ PositionIn(LastResult.explanation, R_protocol)
                < PositionIn(LastResult.explanation, R_notLowercase)
    /\ (CheckDone /\ canonicalResponse.kind # "none") =>
          LET E == Range(LastResult.explanation)
          IN /\ R_multiple \in E <=> Len(canonicalLinks) > 1
             /\ R_notInHead \in E <=> ~canonicalLinks[1].inHead
             /\ R_domain \in E <=> ParseURL(canonicalUrl).host # ParseURL(curUrl).host
             /\ R_protocol \in E <=> ParseURL(canonicalUrl).scheme # ParseURL(curUrl).scheme
             /\ R_notLowercase \in E <=> \E k \in 1..Len(canonicalUrl) : IsUpper(canonicalUrl[k])

\* C8 (witness): that page and href were checked, the target answered 200, and
\* the result holds exactly the protocol and the lower-case reason
C8_Witness ==
    /\ PageParsed
    /\ curUrl = ex_page
    /\ canonicalLinks = <<Link(TRUE, a_upper, TRUE)>>
    /\ canonicalResponse = StatusResponse(200)
    /\ LastResult.explanation = <<R_protocol, R_notLowercase>>

(***************************************************************************)
(* Properties of runAudit                                                  *)
(***************************************************************************)
\* the report of the sitemap being audited has been written
ReportWritten == csvFile # NoFile

\* C4: while a sitemap is audited the results are those of its first i URLs,
\* in order, and the URL being checked is the next one; when its report is
\* written there is exactly one result and one row per sitemap URL, the k-th
\* carrying the k-th URL
C4_OneResultPerUrl ==
    /\ Len(results) = idx
    /\ idx <= Len(urls)
    /\ \A k \in 1..Len(results) : results[k].url = urls[k]
    /\ pc \in {"awaitPage", "awaitCanonical"} => (idx < Len(urls) /\ curUrl = urls[idx + 1])
    /\ ReportWritten =>
          /\ Len(results) = Len(urls)
          /\ Len(csvFile.rows) = Len(urls)
          /\ \A k \in 1..Len(urls) : csvFile.rows[k][1] = urls[k]

\* C4 (witness): the report of a sitemap of three URLs is written; the page
\* fetch of the first failed and the canonical-target fetch of the second failed
C4_Witness ==
    /\ ReportWritten
    /\ urls = <<ex_page, ex_x, ex_page>>
    /\ results[1].explanation = <<R_fetchError("connect ECONNREFUSED")>>
    /\ results[2].explanation = <<R_canonicalError("connect ECONNREFUSED")>>
    /\ results[3].status = "OK"

\* the number of rows of a report file with the given status
RowsWith(file, st) == Cardinality({k \in 1..Len(file.rows) : file.rows[k][2] = st})

\* the sum of the field f of the totals in the sequence q
RECURSIVE SumOf(_, _)
SumOf(q, f) == IF q = <<>> THEN 0 ELSE Head(q)[f] + SumOf(Tail(q), f)

\* C9: the written report has one row per checked URL; its totals count the
\* sitemap URLs, the rows with status OK and the rows with any other status,
\* and add up; the grand totals are the sums of the per-sitemap totals
C9_SummaryConsistent ==
    /\ ReportWritten =>
          LET t == summaries[Len(summaries)]
          IN /\ Len(csvFile.rows) = Len(urls)
             /\ \A k \in 1..Len(urls) :
                   csvFile.rows[k] = <<results[k].url, results[k].status, results[k].explanation>>
             /\ t.totalChecked = Len(urls)
             /\ t.totalOK = RowsWith(csvFile, "OK")
             /\ t.totalFail = Len(csvFile.rows) - RowsWith(csvFile, "OK")
             /\ t.totalOK + t.totalFail = t.totalChecked
             /\ csvFile.summary = <<t.totalChecked, t.totalOK, t.totalFail>>
    /\ \A k \in 1..Len(summaries) :
          summaries[k].totalOK + summaries[k].totalFail = summaries[k].totalChecked
    /\ grandTotalOK = SumOf(summaries, "totalOK")
    /\ grandTotalFail = SumOf(summaries, "totalFail")
    /\ grandTotalChecked = SumOf(summaries, "totalChecked")

\* C9 (witness): the run is over after two sitemaps; the second had three URLs,
\* one without canonical link, one with two, one valid: 3 rows, OK = 1, FAIL = 2
C9_Witness ==
    /\ pc = "done"
    /\ Len(summaries) = 2
    /\ summaries[1].totalChecked = 2
    /\ Len(csvFile.rows) = 3
    /\ results[1].explanation = <<R_missing>>
    /\ results[2].explanation = <<R_multiple>>
    /\ results[3].explanation = <<R_noErrors>>
    /\ summaries[2] = [totalOK |-> 1, totalFail |-> 2, totalChecked |-> 3]
    /\ grandTotalChecked = 5

\* the check that has just returned met a failure: the page fetch threw, the
\* href did not resolve, or the canonical-target fetch threw
CheckFailedWith(message) ==
    /\ CheckDone
    /\ curUrl # <<>>
    /\ \/ response = ErrorResponse(message)
       \/ /\ response.kind = "html"
          /\ canonicalLinks # <<>>
          /\ canonicalLinks[1].hasHref
          /\ canonicalLinks[1].href # <<>>
          /\ ~ParseURLBase(canonicalLinks[1].href, curUrl).ok
          /\ message = InvalidUrlMessage
       \/ canonicalResponse = ErrorResponse(message)

\* C10: a failure met while checking one URL gives that URL a FAIL result that
\* carries the error message, and leaves the audit in its URL loop (until the
\* report is written) with the next check or the report enabled; the audit is
\* aborted from nowhere but a sitemap load; and results once pushed stay as
\* they are until the next sitemap is begun
C10_FailureContained ==
    /\ [](\A message \in FetchErrors \cup {InvalidUrlMessage, UnsupportedMessage} :
             CheckFailedWith(message) =>
                /\ LastResult.url = curUrl
                /\ LastResult.status = "FAIL"
                /\ \E k \in 1..Len(LastResult.explanation) :
                      LastResult.explanation[k].arg = message
                /\ pc # "aborted"
                /\ pc = "urlLoop" => (ENABLED BeginCheck \/ ENABLED SaveReport))
    /\ [][(pc' = "aborted") => (pc = "awaitSitemap")]_vars
    /\ [][(pc = "awaitPage" \/ pc = "awaitCanonical") => (pc' = "urlLoop" \/ pc' = "awaitCanonical")]_vars
    /\ [][pc # "loop" => (SubSeq(results', 1, Len(results)) = results)]_vars

\* C10 (witness): the report of a sitemap of three URLs is written; the page
\* fetch of the first failed, the href of the second did not resolve, the
\* canonical-target fetch of the third failed
C10_Witness ==
    /\ ReportWritten
    /\ Len(urls) = 3
    /\ results[1].explanation = <<R_fetchError("connect ECONNREFUSED")>>
    /\ results[2].explanation = <<R_fetchError(InvalidUrlMessage)>>
    /\ results[3].explanation = <<R_canonicalError("connect ECONNREFUSED")>>
    /\ CheckFailedWith("connect ECONNREFUSED")

\* C11: a sitemap whose load failed ends only its own audit: the run is never
\* aborted, and it stops only after the loop has passed every configured
\* sitemap
C11_SitemapFailureContained ==
    /\ pc # "aborted"
    /\ pc = "done" => sIdx > Len(sitemapUrls)

\* C11 (failing input): two sitemaps are configured, the load of the first
\* failed, and the run has stopped without loading the second and without
\* writing any report
C11_Failing ==
    /\ pc = "aborted"
    /\ Len(sitemapUrls) = 2
    /\ sIdx = 1
    /\ summaries = <<>>
    /\ ~ENABLED Next

\* the premise of C12: one in-head canonical link whose target answered 200
\* and whose href is equivalent to the page URL under normalizeUrl
EquivalentCanonical ==
    /\ PageParsed
    /\ Len(canonicalLinks) = 1
    /\ canonicalLinks[1].hasHref
    /\ canonicalLinks[1].inHead
    /\ canonicalResponse = StatusResponse(200)
    /\ ParseURL(canonicalLinks[1].href).ok
    /\ areUrlsEquivalent(canonicalLinks[1].href, curUrl)

\* C12: a page whose single in-head canonical answers 200 and differs from the
\* page URL only presentationally (the two are equivalent under normalizeUrl)
\* gets status OK
C12_PresentationalTolerated ==
    EquivalentCanonical => LastResult.status = "OK"

\* C12 (failing input): the page https://example.com/page with the canonical
\* href https://www.example.com/page/ got FAIL with the domain reason
C12_Failing ==
    /\ EquivalentCanonical
    /\ curUrl = ex_page
    /\ canonicalLinks[1].href = a_wwwSlash
    /\ LastResult.status = "FAIL"
    /\ LastResult.explanation = <<R_domain>>

(***************************************************************************)
(* Further properties of normalizeUrl                                      *)
(***************************************************************************)
\* the port written in the authority of the URL string s, <<>> when none is
PortWritten(s) ==
    With(AuthorityOf(s), LAMBDA auth :
    With(indexOf(auth, <<":">>), LAMBDA colon :
        IF colon = 0 THEN <<>> ELSE SubSeq(auth, colon + 1, Len(auth))))

\* the text of the URL string s after its authority
AfterAuthority(s) ==
    With(indexOf(s, sep), LAMBDA i :
        SubSeq(s, FirstOf(s, {"/", "?", "#"}, i + 3), Len(s)))

\* C13: the normalized form of a valid URL carries an explicit port exactly
\* when the URL carries one that is not the default port of its own scheme,
\* and then that port; and a ":80/" or ":443/" inside the path stays there
C13_DefaultPortOnly ==
    (nStage # "input" /\ ParseURL(nUrl).ok) =>
        /\ PortWritten(nOnce) = ParseURL(nUrl).port
        /\ \A pat \in {<<":", "8", "0", "/">>, <<":", "4", "4", "3", "/">>} :
              (indexOf(toLowerCase(ParseURL(nUrl).path), pat) # 0
               /\ ~endsWith(ParseURL(nUrl).path, <<"/">>))
                 => indexOf(AfterAuthority(nOnce), pat) # 0

\* C13 (failing input): https://example.com:80/x, whose port is not the
\* default port of https, has been normalized to https://example.com/x
C13_Failing ==
    /\ nStage = "once"
    /\ nUrl = s_https \o sep \o h_example \o <<":", "8", "0">> \o p_x
    /\ ParseURL(nUrl).port = <<"8", "0">>
    /\ nOnce = ex_x

\* C14: a valid URL whose path is not the root and does not end in "/" has the
\* normalized form of the same URL with "/" appended to its path, with or
\* without a query or fragment; and the normalized form holds neither
C14_TrailingSlashStripped ==
    /\ (nStage = "compared" /\ ParseURL(nUrl).ok
        /\ ParseURL(nUrl).path # <<"/">> /\ ~endsWith(ParseURL(nUrl).path, <<"/">>)
        /\ nOther = AppendSlash(nUrl))
          => nOnce = nOtherNorm
    /\ (nStage # "input" /\ ParseURL(nUrl).ok)
          => (indexOf(nOnce, <<"?">>) = 0 /\ indexOf(nOnce, <<"#">>) = 0)

\* C14 (failing input): https://example.com/page#top and
\* https://example.com/page/#top have been normalized, the second keeping
\* its trailing slash
C14_Failing ==
    /\ nStage = "compared"
    /\ nUrl = ex_page \o f_top
    /\ nOther = AppendSlash(nUrl)
    /\ nOnce = ex_page
    /\ nOtherNorm = ex_page \o <<"/">>

(***************************************************************************)
(* canonicalchecker.js: the evaluator that reads the page with Puppeteer.  *)
(* Its runAudit has the loops of canonical.js, and its runCanonicalChecks  *)
(* the same try and catch blocks around the checks modelled here           *)
(***************************************************************************)
R_notSelf == Reason("Canonical URL does not reference itself.", "")

\* link.href: the href attribute resolved against the page URL, the attribute
\* itself when it does not resolve, the empty string when it is absent
hrefProperty(link, pageUrl) ==
    IF ~link.hasHref THEN <<>>
    ELSE With(ParseURLBase(link.href, pageUrl), LAMBDA parsed :
            IF parsed.ok THEN Serialize(parsed) ELSE link.href)

\* page.evaluate: the href of every canonical link element of the page
EvaluateHrefs(links, pageUrl) ==
    [k \in 1..Len(links) |-> hrefProperty(links[k], pageUrl)]

\* canonicalUrl !== url
CheckSelfReference(v, pageUrl, canonical) ==
    IF canonical # pageUrl THEN Fail(v, R_notSelf) ELSE v

\* the try block around fetch(canonicalUrl) and its catch: the status is
\* tested, redirects are not
CheckerCanonicalResponse(v, answer) ==
    IF answer.kind = "error"
    THEN Fail(v, R_canonicalError(answer.message))
    ELSE CheckStatus(v, answer)

\* runCanonicalChecks of canonicalchecker.js from the hrefs page.evaluate
\* returned to its first await or return
CheckerBeforeFetch(pageUrl, hrefs) ==
    With([status |-> "OK", explanation |-> <<>>], LAMBDA v0 :
        IF Len(hrefs) = 0
        THEN [returned |-> TRUE, result |-> Result(pageUrl, Fail(v0, R_missing)),
              canonical |-> <<>>]
        ELSE IF Len(hrefs) > 1
        THEN [returned |-> TRUE, result |-> Result(pageUrl, Fail(v0, R_multiple)),
              canonical |-> <<>>]
        ELSE IF hrefs[1] = <<>>
        THEN [returned |-> TRUE, result |-> Result(pageUrl, Fail(v0, R_empty)),
              canonical |-> <<>>]
        ELSE [returned |-> FALSE, result |-> Result(pageUrl, v0), canonical |-> hrefs[1]])

\* runCanonicalChecks of canonicalchecker.js from the outcome of
\* fetch(canonicalUrl) to its return
CheckerAfterFetch(pageUrl, canonical, answer) ==
    With(CheckerCanonicalResponse([status |-> "OK", explanation |-> <<>>], answer), LAMBDA v1 :
        Result(pageUrl, CheckSelfReference(v1, pageUrl, canonical)))

\* page.goto and page.evaluate have settled: the checks run up to
\* fetch(canonicalUrl), or to the return when the target is not fetched
CheckerPageLoaded(docs) ==
    /\ pc = "awaitPage"
    /\ Fetchable(curUrl)
    /\ response' = PageResponse
    /\ \E links \in docs :
          \E b \in {CheckerBeforeFetch(curUrl, EvaluateHrefs(links, curUrl))} :
             /\ canonicalLinks' = links
             /\ IF b.returned
                THEN /\ PushResult(b.result)
                     /\ status' = b.result.status
                     /\ explanation' = b.result.explanation
                     /\ UNCHANGED <<canonicalUrl, requests>>
                ELSE /\ status' = "OK"
                     /\ explanation' = <<>>
                     /\ canonicalUrl' = b.canonical
                     /\ requests' = Append(requests, Request("canonical", b.canonical))
                     /\ inflight' = {Request("canonical", b.canonical)}
                     /\ pc' = "awaitCanonical"
                     /\ UNCHANGED <<results, idx>>
    /\ UNCHANGED <<sitemapUrls, sIdx, urls, curUrl, canonicalResponse, totalVars, nvars>>

\* what runCanonicalChecks of canonicalchecker.js does once
\* fetch(canonicalUrl) has settled
CheckerCanonicalSettled(answer) ==
    \E r \in {CheckerAfterFetch(curUrl, canonicalUrl, answer)} :
       /\ canonicalResponse' = answer
       /\ status' = r.status
       /\ explanation' = r.explanation
       /\ PushResult(r)
       /\ UNCHANGED <<sitemapUrls, sIdx, urls, curUrl, response, canonicalLinks,
                      canonicalUrl, requests, totalVars, nvars>>

CheckerCanonicalResponded(statuses) ==
    /\ pc = "awaitCanonical"
    /\ Fetchable(canonicalUrl)
    /\ \E code \in statuses : CheckerCanonicalSettled(StatusResponse(code))

CheckerCanonicalFailed(errors) ==
    /\ pc = "awaitCanonical"
    /\ \E message \in (IF Fetchable(canonicalUrl) THEN errors ELSE {UnsupportedMessage}) :
          CheckerCanonicalSettled(ErrorResponse(message))

CheckerPageUrls == {ex_page, u_httpPage}

CheckerSitemaps == {<<>>} \cup {<<u>> : u \in CheckerPageUrls}

\* the audit of canonicalchecker.js on one sitemap of at most one URL
CheckerInit == AuditInit(<<s_https \o sep \o h_example \o sitemapXml>>)

CheckerNext ==
    \/ BeginSitemap
    \/ SitemapLoaded(CheckerSitemaps)
    \/ SitemapFailed
    \/ BeginCheck
    \/ PageFailed(FetchErrors)
    \/ CheckerPageLoaded(EvalDocs)
    \/ CheckerCanonicalResponded(EvalStatuses)
    \/ CheckerCanonicalFailed(FetchErrors)
    \/ SaveReport
    \/ Finish

SpecChecker == CheckerInit /\ [][CheckerNext]_vars

(***************************************************************************)
(* Further properties of runCanonicalChecks                                *)
(***************************************************************************)
\* the first canonical link of the page checked last carries an href that
\* resolves against the page URL
FirstHrefResolves ==
    /\ canonicalLinks # <<>>
    /\ canonicalLinks[1].hasHref
    /\ canonicalLinks[1].href # <<>>
    /\ ParseURLBase(canonicalLinks[1].href, curUrl).ok

\* C15: on a page with several canonical links the multiple reason comes
\* first and the checks go on with the first link: without an href the empty
\* reason follows; with an href that resolves the canonical target is fetched
\* and its status or fetch error is reported after the multiple reason
C15_MultipleContinues ==
    (PageParsed /\ Len(canonicalLinks) > 1) =>
        /\ ~canonicalLinks[1].hasHref =>
              LastResult.explanation = <<R_multiple, R_empty>>
        /\ FirstHrefResolves =>
              /\ LastResult.explanation[1] = R_multiple
              /\ Len(requests) = 2
              /\ requests[2].kind = "canonical"
              /\ canonicalResponse.kind # "none"
              /\ (canonicalResponse.kind = "status" /\ canonicalResponse.status # 200)
                    => PositionIn(LastResult.explanation, R_status(canonicalResponse.status)) > 1
              /\ canonicalResponse.kind = "error"
                    => PositionIn(LastResult.explanation,
                                  R_canonicalError(canonicalResponse.message)) > 1

\* C15 (failing input): canonicalchecker.js has checked a page with two
\* canonical links, the first without an href, and returned the multiple
\* reason alone, having requested nothing but the page
C15_Failing ==
    /\ PageParsed
    /\ canonicalLinks = <<Link(FALSE, <<>>, TRUE), SecondLink>>
    /\ LastResult.explanation = <<R_multiple>>
    /\ requests = <<Request("page", curUrl)>>

\* C16: when the first canonical link has no href, or one that is empty or
\* holds nothing but spaces, the empty reason is reported (after the multiple
\* reason, if any) and nothing else: the canonical target is not fetched
C16_EmptySkipsRest ==
    (PageParsed /\ canonicalLinks # <<>>
     /\ (~canonicalLinks[1].hasHref \/ StripSpaces(canonicalLinks[1].href) = <<>>)) =>
        /\ LastResult.status = "FAIL"
        /\ LastResult.explanation =
              (IF Len(canonicalLinks) > 1 THEN <<R_multiple>> ELSE <<>>) \o <<R_empty>>
        /\ requests = <<Request("page", curUrl)>>
        /\ canonicalUrl = <<>>
        /\ canonicalResponse = NoResponse

\* C16 (failing input): the page https://example.com/page whose canonical
\* href is one space was checked: the href resolved to the page URL, the
\* target was fetched and the result is OK
C16_Failing ==
    /\ PageParsed
    /\ curUrl = ex_page
    /\ canonicalLinks = <<Link(TRUE, a_blank, TRUE)>>
    /\ canonicalUrl = ex_page
    /\ requests = <<Request("page", ex_page), Request("canonical", ex_page)>>
    /\ canonicalResponse = StatusResponse(200)
    /\ LastResult.explanation = <<R_noErrors>>

\* C17: a check whose canonical-target fetch threw returns FAIL with one
\* reason, the one carrying the error message, and the audit goes on
C17_CanonicalErrorOnly ==
    (CheckDone /\ canonicalResponse.kind = "error") =>
        /\ LastResult.status = "FAIL"
        /\ LastResult.explanation = <<R_canonicalError(canonicalResponse.message)>>
        /\ pc # "aborted"

\* C17 (failing input): the page https://example.com/page with the canonical
\* href https://other.org/page, whose fetch threw, got the error reason and
\* the domain reason
C17_Failing ==
    /\ CheckDone
    /\ curUrl = ex_page
    /\ canonicalLinks = <<Link(TRUE, a_other, TRUE)>>
    /\ canonicalResponse = ErrorResponse("connect ECONNREFUSED")
    /\ LastResult.explanation = <<R_canonicalError("connect ECONNREFUSED"), R_domain>>

\* the place of a reason in the rule list: missing, multiple, empty,
\* not-in-head, bad status (or the canonical fetch error), redirecting,
\* not-absolute, cross-domain, cross-protocol, not-lowercase
RuleRank(reason) ==
    CASE reason = R_missing -> 1
      [] reason = R_multiple -> 2
      [] reason = R_empty -> 3
      [] reason = R_notInHead -> 4
      [] reason.text \in {R_status(200).text, R_canonicalError("").text} -> 5
      [] reason = R_redirecting -> 6
      [] reason = R_notAbsolute -> 7
      [] reason = R_domain -> 8
      [] reason = R_protocol -> 9
      [] reason = R_notLowercase -> 10
      [] OTHER -> 0

\* C18: the reasons of every result stand in the order of the rule list
C18_RuleListOrder ==
    \A k \in 1..Len(results) :
        \A i, j \in 1..Len(results[k].explanation) :
            i < j => RuleRank(results[k].explanation[i]) < RuleRank(results[k].explanation[j])

\* C18 (failing input): the page https://example.com/page with the canonical
\* href mailto:a got the domain and protocol reasons before the not-absolute
\* reason
C18_Failing ==
    /\ CheckDone
    /\ curUrl = ex_page
    /\ canonicalLinks = <<Link(TRUE, a_mailto, TRUE)>>
    /\ LastResult.explanation =
          <<R_canonicalError(UnsupportedMessage), R_domain, R_protocol, R_notAbsolute>>

(***************************************************************************)
(* Further properties of runAudit                                          *)
(***************************************************************************)
\* C19: at most one request is in flight, and one is exactly while runAudit
\* awaits a sitemap, a page or a canonical target; while URL i+1 is checked
\* the results of the i URLs before it are in the list; while a sitemap is
\* loaded the reports of all sitemaps before it are written; a check requests
\* its page once and then its canonical target at most once; and a request
\* leaves flight, making room for the next, only by being answered
C19_Sequential ==
    /\ [](/\ Cardinality(inflight) <= 1
          /\ inflight # {} <=> pc \in {"awaitSitemap", "awaitPage", "awaitCanonical"}
          /\ pc \in {"awaitPage", "awaitCanonical"} =>
                /\ Len(results) = idx
                /\ curUrl = urls[idx + 1]
                /\ inflight = {requests[Len(requests)]}
          /\ pc \in {"awaitSitemap", "urlLoop", "awaitPage", "awaitCanonical"} =>
                Len(summaries) = sIdx - 1
          /\ Len(requests) <= 2
          /\ Len(requests) >= 1 => requests[1] = Request("page", curUrl)
          /\ Len(requests) = 2 => requests[2] = Request("canonical", canonicalUrl))
    /\ [][(inflight # {} /\ inflight' # inflight) =>
              \/ pc = "awaitSitemap"
              \/ (pc = "awaitPage" /\ response' # NoResponse)
              \/ (pc = "awaitCanonical" /\ canonicalResponse' # NoResponse)]_vars
    /\ [][(pc = "awaitPage" \/ pc = "awaitCanonical") => idx' >= idx /\ idx' <= idx + 1]_vars

\* C19 (witness): the second sitemap is audited, its first URL has its result
\* and the canonical target of its second URL is being fetched
C19_Witness ==
    /\ pc = "awaitCanonical"
    /\ sIdx = 2
    /\ Len(summaries) = 1
    /\ summaries[1].totalChecked = 3
    /\ idx = 1
    /\ Len(results) = 1
    /\ inflight = {Request("canonical", ex_page)}
    /\ requests = <<Request("page", ex_x), Request("canonical", ex_page)>>

(***************************************************************************)
(* The two evaluators on the same page                                     *)
(***************************************************************************)
\* what runCanonicalChecks of canonical.js returns for the page, the canonical
\* links and the canonical-target answer of the check made last
CanonicalJsResult ==
    With(BeforeCanonicalFetch(curUrl, canonicalLinks), LAMBDA b :
        IF b.returned THEN b.result
        ELSE AfterCanonicalFetch(curUrl, b.v, b.canonical, canonicalResponse))

\* the premise of C20: canonicalchecker.js has checked a page with one
\* canonical link whose href is not empty and whose target answered 200
OneCanonicalAnswering200 ==
    /\ PageParsed
    /\ Len(canonicalLinks) = 1
    /\ canonicalLinks[1].hasHref
    /\ canonicalLinks[1].href # <<>>
    /\ canonicalResponse = StatusResponse(200)

\* C20: on such a page canonicalchecker.js returns FAIL whenever the canonical
\* URL is not the page URL, character for character; canonical.js returns OK
\* whenever the link is in head and its URL is http(s), on the host and scheme
\* of the page and lower-case; and the two return the same status when the
\* canonical URL is the page URL and lower-case
C20_SelfReferencePolicies ==
    OneCanonicalAnswering200 =>
        /\ canonicalUrl # curUrl => LastResult.status = "FAIL"
        /\ (/\ canonicalLinks[1].inHead
            /\ ParseURL(canonicalUrl).scheme \in SpecialSchemes
            /\ ParseURL(canonicalUrl).host = ParseURL(curUrl).host
            /\ ParseURL(canonicalUrl).scheme = ParseURL(curUrl).scheme
            /\ canonicalUrl = toLowerCase(canonicalUrl))
              => CanonicalJsResult.status = "OK"
        /\ (canonicalUrl = curUrl /\ canonicalUrl = toLowerCase(canonicalUrl))
              => LastResult.status = CanonicalJsResult.status

\* C20 (failing input): the page https://example.com/page carries its own URL
\* as its only canonical link, outside head, and the target answered 200:
\* canonicalchecker.js returned OK, canonical.js returns FAIL
C20_Failing ==
    /\ OneCanonicalAnswering200
    /\ curUrl = ex_page
    /\ canonicalLinks = <<Link(TRUE, ex_page, FALSE)>>
    /\ canonicalUrl = ex_page
    /\ LastResult.status = "OK"
    /\ CanonicalJsResult.status = "FAIL"
    /\ CanonicalJsResult.explanation = <<R_notInHead>>

\* the href of the first canonical link of the page checked last, without the
\* spaces around it
FirstHref == StripSpaces(canonicalLinks[1].href)

====
